---- MODULE Spec2Model ----
(***************************************************************************)
(* A model of map_tessan.py: the Streamlit script that loads the client    *)
(* CSV, lets the user pick a department, geocodes the filtered addresses   *)
(* through the cached get_geocode and draws one marker per resolved row.   *)
(*                                                                         *)
(* One behaviour is one server process ("run"): the two st.cache_data      *)
(* caches live as long as the process, and main() is executed again on     *)
(* every rerun of the script ("invocation").                               *)
(*                                                                         *)
(* Columns the script only carries along (Name, PostalCode, Locality) are  *)
(* not part of a row here; a row keeps its DataFrame index label as id.    *)
(* A float mean is kept as the exact fraction <<sum, count>>.              *)
(***************************************************************************)
EXTENDS Integers, Sequences, FiniteSets

\* ------------------------------------------------------------------ bounds

\* Largest number of rows the CSV export holds.
MaxRows == 3

\* Cap on the external-call counter of one address.
MaxCalls == 2

\* ------------------------------------------------------------- value sets

\* What pandas holds for a missing cell of a text column.
NaN == "NaN"

\* What a missing coordinate is: None in get_geocode's (None, None), NaN in the
\* lat/lng columns.  A number outside every latitude and longitude.
None == 999

\* Raw text of an Address cell and of an AdministrativeArea2 cell of the CSV.
AddressCells == {"", "12 rue de Brest", "3 quai de Lorient"}
DepartmentCells == {"", "Finistere", "Morbihan"}

Addresses == AddressCells \ {""}
DeptValues == DepartmentCells \ {""}

\* Position of a department name in Python's string order (sorted()).
DeptRank == [d \in DeptValues |-> IF d = "Finistere" THEN 1 ELSE 2]

placeholder == "Veuillez choisir un departement"

PromptMsg == "Veuillez choisir un departement pour continuer."
NoDataMsg == "No data available for the selected filter."
NoGeoMsg == "No valid geocoding results for the selected data."

\* What geocoder.geocode(query) can do: raise, return nothing, or return a
\* best match.  The provider is external: a match may lack a coordinate.
Points == {<<48, -4>>, <<47, -3>>, <<48, None>>}
ProviderOutcomes ==
    {[kind |-> "error", lat |-> None, lng |-> None],
     [kind |-> "nomatch", lat |-> None, lng |-> None]}
    \cup {[kind |-> "match", lat |-> p[1], lng |-> p[2]] : p \in Points}

CsvRows == [Address : AddressCells, Dept : DepartmentCells]

RECURSIVE SeqsUpTo(_, _)
SeqsUpTo(S, n) ==
    IF n = 0 THEN {<<>>}
    ELSE LET shorter == SeqsUpTo(S, n - 1)
         IN shorter \cup {Append(s, x) : s \in {t \in shorter : Len(t) = n - 1}, x \in S}

VARIABLES
    csv,        \* the remote CSV export, as text cells
    loaded,     \* load_data's cache holds a value
    clients,    \* the value load_data's cache holds
    cache,      \* get_geocode's cache, by query
    extCalls,   \* geocoder.geocode calls made in this run, by query
    answered,   \* what the provider last did for a query
    pc,         \* where the current invocation of main stands
    selected,   \* selected_department
    data,       \* main's variable data
    coords,     \* results of get_geocode collected by apply so far
    asked,      \* queries get_geocode was invoked with in this invocation
    invCalls,   \* queries sent to the provider in this invocation
    stages,     \* stages of main this invocation has entered
    message,    \* st.info / st.warning text shown by this invocation
    failure,    \* exception that ended this invocation
    errors,     \* queries reported by st.error in this invocation
    centroid,   \* location the map is centered on
    markers,    \* markers added to the map
    shown       \* rows of the st.dataframe, when toggled on

vars == <<csv, loaded, clients, cache, extCalls, answered, pc, selected, data, coords,
          asked, invCalls, stages, message, failure, errors, centroid,
          markers, shown>>

\* ------------------------------------------------------------ load_data

\* pd.read_csv: an empty field is read as NaN.
ParseCell(c) == IF c = "" THEN NaN ELSE c

\* pd.read_csv(url): one row per CSV line, labelled 0, 1, ... (RangeIndex).
ReadCsv(raw) ==
    [i \in 1..Len(raw) |->
        [id |-> i - 1,
         Address |-> ParseCell(raw[i].Address),
         Dept |-> ParseCell(raw[i].Dept)]]

\* load_data() under st.cache_data: the stored value, or a fetch.
LoadData == IF loaded THEN clients ELSE ReadCsv(csv)

\* Mutant: the rows missing an Address are not dropped.
DropNaNothing(rows) == rows

\* data.dropna(subset=['Address'])
DropNaAddress(rows) == SelectSeq(rows, LAMBDA r : r.Address # NaN)

\* ------------------------------------------------------------- selector

RECURSIVE SortedDepts(_)
SortedDepts(S) ==
    IF S = {} THEN <<>>
    ELSE LET m == CHOOSE x \in S : \A y \in S : DeptRank[x] <= DeptRank[y]
         IN <<m>> \o SortedDepts(S \ {m})

\* sorted(data['AdministrativeArea2'].dropna().unique().tolist())
Departments(rows) ==
    SortedDepts({rows[i].Dept : i \in 1..Len(rows)} \ {NaN})

\* Mutant: the departments are collected before the rows missing an Address
\* are dropped.
SelectorOptionsAllRows(tbl) == <<placeholder>> \o Departments(tbl)

\* The selectbox options built from the loaded table: the rows missing an
\* Address are dropped first, the placeholder comes first.
SelectorOptions(tbl) == <<placeholder>> \o Departments(DropNaAddress(tbl))

\* Mutant: the comparison with the placeholder never succeeds.
IsPlaceholderNever(sel) == FALSE

\* selected_department == placeholder
IsPlaceholder(sel) == sel = placeholder

\* --------------------------------------------------------------- filter

\* Mutant: the comparison mask is not applied.
ApplyFilterKeepsAll(rows, v) == rows

\* data[data['AdministrativeArea2'] == selected_department]: a NaN cell
\* compares unequal to everything.
ApplyFilter(rows, v) == SelectSeq(rows, LAMBDA r : r.Dept # NaN /\ r.Dept = v)

\* Mutant: the empty result is not checked for.
AfterFilterNoCheck(rows) == "geocode"

\* if data.empty: st.warning(...); return          (after the filter)
AfterFilter(rows) == IF Len(rows) = 0 THEN "nodata" ELSE "geocode"

\* ----------------------------------------------------------- get_geocode

Miss == [hit |-> FALSE, lat |-> None, lng |-> None, err |-> FALSE]

\* Mutant: the provider's exception is not caught.
GeocodeBodyRaises(o) ==
    IF o.kind = "match"
    THEN [raised |-> FALSE, lat |-> o.lat, lng |-> o.lng, err |-> FALSE]
    ELSE IF o.kind = "nomatch"
    THEN [raised |-> FALSE, lat |-> None, lng |-> None, err |-> FALSE]
    ELSE [raised |-> TRUE, lat |-> None, lng |-> None, err |-> FALSE]

\* The body of get_geocode on the provider's outcome: what it returns, whether
\* it reported through st.error, whether an exception left it.
GeocodeBody(o) ==
    IF o.kind = "match"
    THEN [raised |-> FALSE, lat |-> o.lat, lng |-> o.lng, err |-> FALSE]
    ELSE IF o.kind = "nomatch"
    THEN [raised |-> FALSE, lat |-> None, lng |-> None, err |-> FALSE]
    ELSE [raised |-> FALSE, lat |-> None, lng |-> None, err |-> TRUE]

\* Mutant: an absent result is not kept, so the next call tries again.
StoreSkipsAbsent(c, a, r) ==
    IF r.lat = None /\ r.lng = None
    THEN c
    ELSE [c EXCEPT ![a] = [hit |-> TRUE, lat |-> r.lat, lng |-> r.lng, err |-> r.err]]

\* st.cache_data stores whatever the body returned, with the st.error element
\* it emitted, under the query.
StoreResult(c, a, r) ==
    [c EXCEPT ![a] = [hit |-> TRUE, lat |-> r.lat, lng |-> r.lng, err |-> r.err]]

\* ---------------------------------------------------------- aggregation

\* data[['lat', 'lng']] = data['Address'].apply(...)
WithCoords(rows, cs) ==
    [i \in 1..Len(rows) |->
        [id |-> rows[i].id, Address |-> rows[i].Address, Dept |-> rows[i].Dept,
         lat |-> cs[i][1], lng |-> cs[i][2]]]

\* Mutant: dropna(how='all'), a row goes only when both coordinates are missing.
DropNaBothMissing(rows) ==
    SelectSeq(rows, LAMBDA r : ~(r.lat = None /\ r.lng = None))

\* data.dropna(subset=['lat', 'lng'])
DropNaCoords(rows) == SelectSeq(rows, LAMBDA r : r.lat # None /\ r.lng # None)

\* if data.empty: st.warning(...); return          (after the geocoding)
AfterDrop(rows) == IF Len(rows) = 0 THEN "nogeo" ELSE "render"

RECURSIVE SumOf(_)
SumOf(xs) ==
    IF xs = <<>> THEN 0
    ELSE (IF Head(xs) = None THEN 0 ELSE Head(xs)) + SumOf(Tail(xs))

\* Series.mean(): missing values are skipped; kept as <<sum, count>>.
Mean(xs) == <<SumOf(xs), Len(SelectSeq(xs, LAMBDA x : x # None))>>

\* Mutant: the longitude is averaged from the lat column.
CentroidLatTwice(rows) ==
    [lat |-> Mean([i \in 1..Len(rows) |-> rows[i].lat]),
     lng |-> Mean([i \in 1..Len(rows) |-> rows[i].lat])]

\* [average_lat, average_lon]
Centroid(rows) ==
    [lat |-> Mean([i \in 1..Len(rows) |-> rows[i].lat]),
     lng |-> Mean([i \in 1..Len(rows) |-> rows[i].lng])]

NoCentroid == [lat |-> <<0, 0>>, lng |-> <<0, 0>>]

\* for _, row in data.iterrows(): folium.Marker(location=[lat, lng], ...)
Markers(rows) ==
    [i \in 1..Len(rows) |->
        [id |-> rows[i].id, Address |-> rows[i].Address, Dept |-> rows[i].Dept,
         location |-> <<rows[i].lat, rows[i].lng>>]]

\* data[columns_to_display]
Displayed(rows) ==
    [i \in 1..Len(rows) |->
        [id |-> rows[i].id, Address |-> rows[i].Address, Dept |-> rows[i].Dept]]

\* ------------------------------------------------------------------ main

CacheKeys == Addresses \cup {NaN}

Init ==
    /\ csv \in SeqsUpTo(CsvRows, MaxRows)
    /\ loaded = FALSE
    /\ clients = <<>>
    /\ cache = [a \in CacheKeys |-> Miss]
    /\ extCalls = [a \in CacheKeys |-> 0]
    /\ answered = [a \in CacheKeys |-> ""]
    /\ pc = "idle"
    /\ selected = placeholder
    /\ data = <<>>
    /\ coords = <<>>
    /\ asked = <<>>
    /\ invCalls = {}
    /\ stages = {}
    /\ message = ""
    /\ failure = ""
    /\ errors = {}
    /\ centroid = NoCentroid
    /\ markers = <<>>
    /\ shown = <<>>

\* No invocation is executing: the script can be (re)run.
Ready == pc \in {"idle", "prompt", "nodata", "nogeo", "rendered", "failed"}

\* A new invocation starts from a clean page.
FreshPage ==
    /\ coords' = <<>>
    /\ asked' = <<>>
    /\ invCalls' = {}
    /\ message' = ""
    /\ errors' = {}
    /\ centroid' = NoCentroid
    /\ markers' = <<>>
    /\ shown' = <<>>

\* Lines 52-69 with the selector holding sel.
BeginRun(tbl, sel) ==
    /\ loaded' = TRUE
    /\ clients' = tbl
    /\ data' = DropNaAddress(tbl)
    /\ selected' = sel
    /\ pc' = "selected"
    /\ stages' = {"load"}
    /\ failure' = ""
    /\ FreshPage
    /\ UNCHANGED <<csv, cache, extCalls, answered>>

\* main() up to the selectbox: the user's selection is one of its options.
Start ==
    /\ Ready
    /\ LET opts == SelectorOptions(LoadData)
       IN \E k \in 1..Len(opts) : BeginRun(LoadData, opts[k])

\* The filter stage entered with any department value, selectable or not.
StartAny ==
    /\ Ready
    /\ \E sel \in DeptValues \cup {placeholder} : BeginRun(LoadData, sel)

\* pd.read_csv raises: nothing is cached, the invocation ends in the exception.
LoadFails ==
    /\ Ready
    /\ ~loaded
    /\ pc' = "failed"
    /\ failure' = "DataUnavailable"
    /\ data' = <<>>
    /\ stages' = {}
    /\ selected' = placeholder
    /\ FreshPage
    /\ UNCHANGED <<csv, loaded, clients, cache, extCalls, answered>>

\* Mutant: st.stop() is missing, the script runs on into the filter.
PlaceholderFallsThrough ==
    /\ pc = "selected"
    /\ IsPlaceholder(selected)
    /\ data' = ApplyFilter(data, selected)
    /\ stages' = stages \cup {"filter"}
    /\ pc' = AfterFilter(data')
    /\ message' = IF pc' = "nodata" THEN NoDataMsg ELSE PromptMsg
    /\ UNCHANGED <<csv, loaded, clients, cache, extCalls, answered, selected,
                   coords, asked, invCalls, failure, errors, centroid, markers,
                   shown>>

\* if selected_department == placeholder: st.info(...); st.stop()
PlaceholderStop ==
    /\ pc = "selected"
    /\ IsPlaceholder(selected)
    /\ pc' = "prompt"
    /\ message' = PromptMsg
    /\ UNCHANGED <<csv, loaded, clients, cache, extCalls, answered,
                   selected, data, coords,
                   asked, invCalls, stages, failure, errors, centroid, markers,
                   shown>>

\* Lines 76-81: the filter and the check for an empty result.
FilterStage ==
    /\ pc = "selected"
    /\ ~IsPlaceholder(selected)
    /\ data' = ApplyFilter(data, selected)
    /\ stages' = stages \cup {"filter"}
    /\ pc' = AfterFilter(data')
    /\ message' = IF pc' = "nodata" THEN NoDataMsg ELSE message
    /\ UNCHANGED <<csv, loaded, clients, cache, extCalls, answered,
                   selected, coords,
                   asked, invCalls, failure, errors, centroid, markers, shown>>

\* The query of the next row apply hands to get_geocode.
NextQuery == data[Len(coords) + 1].Address

\* get_geocode(x) answered from st.cache_data: the stored value is returned
\* and the stored st.error element is replayed.
GeocodeHit ==
    /\ pc = "geocode"
    /\ Len(coords) < Len(data)
    /\ cache[NextQuery].hit
    /\ coords' = Append(coords, <<cache[NextQuery].lat, cache[NextQuery].lng>>)
    /\ asked' = Append(asked, NextQuery)
    /\ errors' = IF cache[NextQuery].err THEN errors \cup {NextQuery} ELSE errors
    /\ stages' = stages \cup {"geocode"}
    /\ UNCHANGED <<csv, loaded, clients, cache, extCalls, answered,
                   pc, selected, data,
                   invCalls, message, failure, centroid, markers, shown>>

\* get_geocode(x) not cached: the body runs and calls the provider.
GeocodeMiss ==
    /\ pc = "geocode"
    /\ Len(coords) < Len(data)
    /\ ~cache[NextQuery].hit
    /\ extCalls[NextQuery] < MaxCalls
    /\ \E o \in ProviderOutcomes :
        LET r == GeocodeBody(o)
        IN /\ extCalls' = [extCalls EXCEPT ![NextQuery] = @ + 1]
           /\ answered' = [answered EXCEPT ![NextQuery] = o.kind]
           /\ invCalls' = invCalls \cup {NextQuery}
           /\ asked' = Append(asked, NextQuery)
           /\ stages' = stages \cup {"geocode"}
           /\ IF r.raised
              THEN /\ pc' = "failed"
                   /\ failure' = "GeocodingFailure"
                   /\ UNCHANGED <<cache, coords, errors>>
              ELSE /\ cache' = StoreResult(cache, NextQuery, r)
                   /\ coords' = Append(coords, <<r.lat, r.lng>>)
                   /\ errors' = IF r.err THEN errors \cup {NextQuery} ELSE errors
                   /\ UNCHANGED <<pc, failure>>
    /\ UNCHANGED <<csv, loaded, clients, selected, data, message, centroid,
                   markers, shown>>

\* Lines 86-93 once apply is through: the columns are assigned, the rows
\* without coordinates dropped, an empty result reported.
AssignDrop ==
    /\ pc = "geocode"
    /\ Len(coords) = Len(data)
    /\ data' = DropNaCoords(WithCoords(data, coords))
    /\ stages' = stages \cup {"aggregate"}
    /\ pc' = AfterDrop(data')
    /\ message' = IF pc' = "nogeo" THEN NoGeoMsg ELSE message
    /\ UNCHANGED <<csv, loaded, clients, cache, extCalls, answered,
                   selected, coords,
                   asked, invCalls, failure, errors, centroid, markers, shown>>

\* Lines 99-155: the map is centered, one marker is added per row, the table
\* is displayed when the toggle is on.
Render ==
    /\ pc = "render"
    /\ \E toggle \in BOOLEAN :
        shown' = IF toggle THEN Displayed(data) ELSE <<>>
    /\ centroid' = Centroid(data)
    /\ markers' = Markers(data)
    /\ stages' = stages \cup {"render"}
    /\ pc' = "rendered"
    /\ UNCHANGED <<csv, loaded, clients, cache, extCalls, answered,
                   selected, data, coords,
                   asked, invCalls, message, failure, errors>>

\* requests.get(geojson_url) raises: nothing is drawn.
OverlayFails ==
    /\ pc = "render"
    /\ pc' = "failed"
    /\ failure' = "OverlayUnavailable"
    /\ UNCHANGED <<csv, loaded, clients, cache, extCalls, answered,
                   selected, data, coords,
                   asked, invCalls, stages, message, errors, centroid, markers,
                   shown>>

Pipeline ==
    \/ PlaceholderStop
    \/ FilterStage
    \/ GeocodeHit
    \/ GeocodeMiss
    \/ AssignDrop
    \/ Render
    \/ OverlayFails

Next == Start \/ LoadFails \/ Pipeline

Spec == Init /\ [][Next]_vars

\* The same pipeline with the filter stage driven by every department value.
NextFilter == StartAny \/ LoadFails \/ Pipeline

SpecFilter == Init /\ [][NextFilter]_vars

\* ------------------------------------------------------------ properties

\* What the properties measure the pipeline against, read off the loaded
\* table, the selection and the cache, not off the pipeline's own variables.

\* An invocation got past load_data.
InInvocation == pc # "idle" /\ failure # "DataUnavailable"

\* Positions of the loaded rows that have an Address.
AddressRows == {i \in 1..Len(clients) : clients[i].Address # NaN}

\* Positions of the rows the selected department designates.
MatchingRows == {i \in AddressRows : clients[i].Dept = selected}

\* The query has stored coordinates, both present.
Resolved(a) == cache[a].hit /\ cache[a].lat # None /\ cache[a].lng # None

ResolvedRows == {i \in MatchingRows : Resolved(clients[i].Address)}

IdsOf(rows) == {rows[i].id : i \in 1..Len(rows)}

IdsAt(S) == {clients[i].id : i \in S}

RECURSIVE SumBy(_, _)
SumBy(S, f) ==
    IF S = {} THEN 0
    ELSE LET x == CHOOSE y \in S : TRUE IN f[x] + SumBy(S \ {x}, f)

\* C1: a provider error or a missing match for an address gives the absent
\* result (None, None) and never ends the invocation; every record of the
\* filtered set is still geocoded, and every resolved one is kept for
\* rendering and gets its marker.
FaultIsolation ==
    /\ failure # "GeocodingFailure"
    /\ \A k \in 1..Len(coords) :
        answered[asked[k]] \in {"error", "nomatch"} => coords[k] = <<None, None>>
    /\ "aggregate" \in stages =>
        /\ Len(asked) = Cardinality(MatchingRows)
        /\ {asked[k] : k \in 1..Len(asked)} = {clients[i].Address : i \in MatchingRows}
        /\ IdsAt(ResolvedRows) \subseteq IdsOf(data)
    /\ pc = "rendered" => IdsAt(ResolvedRows) \subseteq IdsOf(markers)

\* C1's case: in this invocation the provider raised for one address, and
\* another record was rendered all the same.
FaultIsolationWitness ==
    /\ pc = "rendered"
    /\ \E a \in invCalls : answered[a] = "error"
    /\ \E a \in invCalls : answered[a] = "match"
    /\ Len(markers) >= 1
    /\ Len(asked) > Len(markers)

\* C2: the provider is called at most once per address in a run, also after
\* a failed or empty first attempt, and the records sharing an address get
\* the same coordinates: those stored for it.
GeocodeMemoized ==
    /\ \A a \in CacheKeys : extCalls[a] <= 1
    /\ \A k \in 1..Len(coords) :
        /\ cache[asked[k]].hit
        /\ coords[k] = <<cache[asked[k]].lat, cache[asked[k]].lng>>
    /\ \A j, k \in 1..Len(coords) : asked[j] = asked[k] => coords[j] = coords[k]
    /\ \A j, k \in 1..Len(markers) :
        markers[j].Address = markers[k].Address
            => markers[j].location = markers[k].location

\* C2's case: two records with one address whose only attempt failed in an
\* earlier invocation, both answered without a new call.
GeocodeMemoizedWitness ==
    /\ Len(coords) >= 2
    /\ asked[1] = asked[2]
    /\ answered[asked[1]] = "error"
    /\ asked[1] \notin invCalls
    /\ extCalls[asked[1]] = 1

\* C3: with the placeholder selected the invocation goes no further than the
\* prompt: no filter, no call of get_geocode, no call of the provider; and
\* what it shows is the prompt, not the 'no data' warning.
PlaceholderStopsBeforeGeocoding ==
    /\ (InInvocation /\ selected = placeholder) =>
        /\ pc \in {"selected", "prompt"}
        /\ asked = <<>>
        /\ invCalls = {}
        /\ stages = {"load"}
    /\ pc = "prompt" =>
        /\ selected = placeholder
        /\ message = PromptMsg
        /\ message # NoDataMsg

\* C3's case: stopped at the prompt with records loaded that have never been
\* geocoded.
PlaceholderStopsWitness ==
    /\ pc = "prompt"
    /\ \E i \in 1..Len(data) : ~cache[data[i].Address].hit

\* C4: every record that is kept for rendering, gets a marker or is displayed
\* has both coordinates, and its address is one the provider resolved.
RenderedHaveCoordinates ==
    /\ pc \in {"render", "rendered"} =>
        \A i \in 1..Len(data) :
            /\ data[i].lat # None
            /\ data[i].lng # None
            /\ Resolved(data[i].Address)
    /\ \A i \in 1..Len(markers) :
        /\ markers[i].location[1] # None
        /\ markers[i].location[2] # None
        /\ Resolved(markers[i].Address)
    /\ \A i \in 1..Len(shown) :
        /\ Resolved(shown[i].Address)
        /\ shown[i].id \in IdsOf(markers)

\* C4's case: a rendered, displayed map that leaves out a record whose match
\* had a latitude and no longitude.
RenderedHaveCoordinatesWitness ==
    /\ pc = "rendered"
    /\ Len(shown) >= 1
    /\ Len(markers) < Len(coords)
    /\ \E k \in 1..Len(coords) : coords[k][1] # None /\ coords[k][2] = None

\* C5: the rendered map is centered on the mean latitude and longitude of
\* exactly the filtered, resolved records, the ones that got the markers,
\* each record counted once.
CentroidIsMean ==
    pc = "rendered" =>
        LET n == Cardinality(ResolvedRows)
            lats == [i \in ResolvedRows |-> cache[clients[i].Address].lat]
            lngs == [i \in ResolvedRows |-> cache[clients[i].Address].lng]
        IN /\ n > 0
           /\ IdsOf(markers) = IdsAt(ResolvedRows)
           /\ Len(markers) = n
           /\ centroid.lat[2] > 0
           /\ centroid.lng[2] > 0
           /\ centroid.lat[1] * n = SumBy(ResolvedRows, lats) * centroid.lat[2]
           /\ centroid.lng[1] * n = SumBy(ResolvedRows, lngs) * centroid.lng[2]

\* C5's case: two records with one resolved address and a third whose
\* address is unresolved.
CentroidIsMeanWitness ==
    /\ pc = "rendered"
    /\ Len(markers) = 2
    /\ markers[1].Address = markers[2].Address
    /\ Len(asked) = 3

\* C6 as stated: with the sentinel selected, the filter returns the records
\* unchanged.
SentinelPassesAll ==
    pc = "prompt" => ApplyFilter(data, selected) = data

\* C6 amended: with the placeholder selected the filter is not applied at
\* all; main keeps the loaded address-bearing records, all of them and in
\* their order, and hands none of them on to geocoding or rendering.
SentinelStopsUnfiltered ==
    (InInvocation /\ selected = placeholder) =>
        /\ "filter" \notin stages
        /\ Len(data) = Cardinality(AddressRows)
        /\ \A i \in 1..Len(data) : data[i] = clients[data[i].id + 1]
        /\ \A i, j \in 1..Len(data) : i < j => data[i].id < data[j].id
        /\ asked = <<>>
        /\ markers = <<>>

\* C6's case: stopped at the prompt holding records of two departments.
SentinelStopsWitness ==
    /\ pc = "prompt"
    /\ \E i, j \in 1..Len(data) :
        data[i].Dept \in DeptValues /\ data[j].Dept \in DeptValues
            /\ data[i].Dept # data[j].Dept

\* C7: the filter keeps exactly the records whose department equals the
\* selected value, unchanged and in input order, never more than it was given.
FilterExact ==
    ("filter" \in stages /\ pc \in {"geocode", "nodata"}) =>
        /\ IdsOf(data) = IdsAt(MatchingRows)
        /\ Len(data) = Cardinality(MatchingRows)
        /\ \A i \in 1..Len(data) :
            /\ data[i] = clients[data[i].id + 1]
            /\ data[i].Dept = selected
        /\ \A i, j \in 1..Len(data) : i < j => data[i].id < data[j].id
        /\ Len(data) <= Cardinality(AddressRows)

\* C7's case: rows 'Finistere' and 'Morbihan' filtered by 'Finistere' give
\* the one matching row.
FilterExactWitness ==
    /\ pc = "geocode"
    /\ selected = "Finistere"
    /\ Len(clients) = 2
    /\ clients[1].Dept = "Finistere"
    /\ clients[2].Dept = "Morbihan"
    /\ AddressRows = {1, 2}
    /\ Len(data) = 1
    /\ data[1].id = 0

\* C8: a department value that no record carries ends the invocation at the
\* 'no data' warning, with get_geocode, the provider, the aggregation and the
\* rendering never entered.
EmptyFilterHalts ==
    (InInvocation /\ pc # "selected" /\ selected # placeholder /\ MatchingRows = {}) =>
        /\ pc = "nodata"
        /\ message = NoDataMsg
        /\ asked = <<>>
        /\ invCalls = {}
        /\ stages = {"load", "filter"}
        /\ markers = <<>>
        /\ centroid = NoCentroid

\* C8's case: halted on a department none of the loaded records carries.
EmptyFilterHaltsWitness ==
    /\ pc = "nodata"
    /\ selected \in DeptValues
    /\ Len(data) = 0
    /\ AddressRows # {}

\* C9: no record without an address is offered to the filter, passed to
\* get_geocode, given a marker or displayed.
LoaderOutputHasAddress ==
    /\ \A i \in 1..Len(data) : data[i].Address \notin {NaN, ""}
    /\ \A k \in 1..Len(asked) : asked[k] \notin {NaN, ""}
    /\ \A i \in 1..Len(markers) : markers[i].Address \notin {NaN, ""}
    /\ \A i \in 1..Len(shown) : shown[i].Address \notin {NaN, ""}
    /\ pc = "selected" => IdsOf(data) \subseteq IdsAt(AddressRows)

\* C9's case: the table had a row with an empty Address cell, and the filter
\* is offered the others.
LoaderOutputHasAddressWitness ==
    /\ pc = "selected"
    /\ \E i \in 1..Len(csv) : csv[i].Address = ""
    /\ Len(data) >= 1
    /\ Len(data) < Len(clients)

\* C10: in main every selectable department matches a record, so the 'no
\* data' halt is never reached; a table without a selectable department can
\* only stop at the prompt.
NoDataUnreachable ==
    /\ pc # "nodata"
    /\ message # NoDataMsg
    /\ (InInvocation /\ selected # placeholder) => MatchingRows # {}
    /\ (InInvocation /\ \A i \in AddressRows : clients[i].Dept = NaN) =>
        /\ selected = placeholder
        /\ pc \in {"selected", "prompt"}

\* C10's case: a department is selected while another one occurs only on a
\* row that has no address.
NoDataUnreachableWitness ==
    /\ pc = "geocode"
    /\ \E i \in 1..Len(clients) :
        /\ clients[i].Address = NaN
        /\ clients[i].Dept \in DeptValues
        /\ \A j \in AddressRows : clients[j].Dept # clients[i].Dept

====
